---- MODULE Spec2Model ----
(***************************************************************************)
(* A state-machine model of rust-oids: the body-plan builder               *)
(* (backend/world.rs AgentBuilder), the segment charge state               *)
(* (backend/world/segment.rs) and the behaviour system                     *)
(* (backend/systems/ai.rs).                                                *)
(***************************************************************************)
EXTENDS Integers, Sequences, FiniteSets, TLC

VARIABLES
    segments,    \* AgentBuilder.segments: Vec<Segment>
    agent,       \* the Agent returned by the last build(): Option<segments>
    lastAdd,     \* the last addw call that reached line 349: parent, offset, result
    panic,       \* the index expression of the builder that has panicked, if any
    made,        \* the last Shape constructor call: its arguments and its outcome
    lastCall,    \* the last call on the builder: its name and start's arguments
    emitters,    \* the world's emitters: a list of positions
    resources,   \* the world's resource agents: id -> [position, active]
    minions,     \* the world's minion agents: id -> [state, brain, segments]
    beacons,     \* AiSystem.beacons
    targets,     \* AiSystem.targets: id -> position
    response,    \* the brain's response in the last to_world pass, per minion
    before,      \* each minion's AgentState as the last to_world pass found it
    lastOp,      \* the operation that led to the current state
    arg,         \* the argument of the last call on a segment's State
    seq,         \* Flock.seq: the last identity handed out
    allocated,   \* the identities next_id has returned, in the order of the calls
    key_pressed,     \* InputState.key_pressed: the set of the keys that are down
    key_ack,         \* InputState.key_ack: the keys key_once has answered for
    drag_state,      \* InputState.drag_state
    mouse_history,   \* InputState.mouse_history: the latest positions left behind
    mouse_position,  \* InputState.mouse_position
    called,          \* the last call on the InputState: its name and arguments
    returned,        \* what that call returned
    reported         \* per key, the key_once calls that returned true since the
                     \* last key event for that key

builderVars == <<segments, agent, lastAdd, panic, made, lastCall>>

aiVars == <<emitters, resources, minions, beacons, targets, response, before, lastOp, arg,
           seq, allocated>>

inputVars == <<key_pressed, key_ack, drag_state, mouse_history, mouse_position,
              called, returned, reported>>

vars == <<segments, agent, lastAdd, panic, made, lastCall,
          emitters, resources, minions, beacons, targets, response, before, lastOp, arg,
          seq, allocated,
          key_pressed, key_ack, drag_state, mouse_history, mouse_position,
          called, returned, reported>>

----------------------------------------------------------------------------
\* Bounds of the exploration.

\* Longest segment list the builder is driven to.
MaxSegments == 2

\* Attachment offsets range over -MaxOffset..MaxOffset.
MaxOffset == 5

----------------------------------------------------------------------------
\* Option<T>: None is the empty sequence, Some(x) the one-element sequence.

None == <<>>

Some(x) == <<x>>

IsSome(o) == o /= <<>>

Unwrap(o) == o[1]

----------------------------------------------------------------------------
\* Shapes and meshes (app/obj.rs).

\* A constructor call that failed an assert! and returned no Shape.
Panic == [kind |-> "panic", radius |-> 0, n |-> 0, width |-> 0, height |-> 0]

\* Shape::new_ball(r): no assertion.
new_ball(r) == [kind |-> "Ball", radius |-> r, n |-> 0, width |-> 0, height |-> 0]

\* Shape::new_box(width, height): no assertion.
new_box(width, height) ==
    [kind |-> "Box", radius |-> 0, n |-> 0, width |-> width, height |-> height]

\* Shape::new_star(radius, n): assert!(radius > 0.); assert!(n > 1);
new_star(radius, n) ==
    IF radius > 0 /\ n > 1
    THEN [kind |-> "Star", radius |-> radius, n |-> n, width |-> 0, height |-> 0]
    ELSE Panic

\* The shapes the builder is driven with: 1, 5 and 4 vertices.
Shapes == {new_ball(1), new_box(2, 4), new_star(1, 2)}

\* The box without its fifth point.
vertices_four_corners(shape) ==
    CASE shape.kind = "Ball" -> <<<<0, shape.radius>>>>
      [] shape.kind = "Box" ->
            LET w2 == shape.width \div 2
                h2 == shape.height \div 2
            IN  <<<<w2, h2>>, <<w2, 0 - h2>>, <<0 - w2, 0 - h2>>, <<0 - w2, h2>>>>
      [] shape.kind = "Star" -> [i \in 1..(2 * shape.n) |-> <<"star", i - 1>>]

\* Shape::vertices().  Box sizes are even, so that w / 2 and h / 2 are exact.
\* A star's point i is kept as its position i in the list: its coordinates
\* are floating-point geometry that nothing here reads.
vertices(shape) ==
    CASE shape.kind = "Ball" -> <<<<0, shape.radius>>>>
      [] shape.kind = "Box" ->
            LET w2 == shape.width \div 2
                h2 == shape.height \div 2
            IN  <<<<0, h2>>, <<w2, h2>>, <<w2, 0 - h2>>, <<0 - w2, 0 - h2>>, <<0 - w2, h2>>>>
      [] shape.kind = "Star" -> [i \in 1..(2 * shape.n) |-> <<"star", i - 1>>]

\* The number of points of Shape::vertices().
vertices_len(shape) == Len(vertices(shape))

\* Shape::length(): the parent's vertex count used by addw.
shape_length(shape) == vertices_len(shape)

\* Mesh::from_shape(shape, winding)
from_shape(shape, winding) ==
    [shape |-> shape, vertices |-> vertices_len(shape), winding |-> winding]

----------------------------------------------------------------------------
\* Positions (core/geometry.rs Position = Vector2<f32>) are pairs of integers.
\* length2 is exact on them, and for a range >= 0 the comparison
\* length() < range is the comparison length2() < range * range.

origin == <<0, 0>>

sub(p, q) == <<p[1] - q[1], p[2] - q[2]>>

length2(v) == v[1] * v[1] + v[2] * v[2]

\* Shape::radius()
shape_radius(shape) == shape.radius

----------------------------------------------------------------------------
\* Segment flags (bitflags! Flags): a set of flag names; contains is subset.

ACTUATOR == {"THRUSTER", "RUDDER", "BRAKE"}

contains(flags, other) == other \subseteq flags

----------------------------------------------------------------------------
\* Segment::new_attachment: the parent's stored index, and the attachment
\* point clamped to the last vertex.
new_attachment(parent, attachment_point) ==
    LET max == parent.mesh.vertices
    IN  Some([index |-> parent.index,
              attachment_point |->
                  IF attachment_point < max THEN attachment_point ELSE max - 1])

\* Rust's % on isize: the remainder has the sign of the dividend.
rust_rem(a, b) == IF a >= 0 THEN a % b ELSE -((-a) % b)

\* The offset added to the length without the remainder being taken.
attachment_index_nowrap(attachment_index_offset, parent_length) ==
    attachment_index_offset + parent_length

\* addw, line 349, before the cast to usize:
\* (attachment_index_offset + parent_length) % parent_length
attachment_index(attachment_index_offset, parent_length) ==
    rust_rem(attachment_index_offset + parent_length, parent_length)

\* parent.mesh.vertices[attachment_index] with attachment_index the cast of a
\* signed remainder r to usize: a negative r wraps to 2^64 + r, far above any
\* vertex count, so the index expression panics exactly when r is outside
\* 0..len-1.
vertex_in_bounds(r, len) == r >= 0 /\ r < len

\* addw, lines 350-356: parent_pos + p0 * (r0 + r1), p0 being the parent's
\* vertex turned by the parent's angle.  The value is floating-point geometry
\* that nothing here reads; it is kept as the values it is computed from.
attached_position(parent, r, shape) ==
    [parent_pos |-> parent.transform.position,
     parent_angle |-> parent.transform.angle,
     vertex |-> r,
     r0 |-> shape_radius(parent.mesh.shape),
     r1 |-> shape_radius(shape)]

\* addw, lines 351 and 357: PI / 2 + atan2(p0.y, p0.x), kept likewise.
attached_angle(parent, r) ==
    [parent_angle |-> parent.transform.angle, vertex |-> r]

\* AgentBuilder::new_segment: the index is the length of the list at the
\* moment of the call.
new_segment(segs, shape, winding, position, angle, attachment, flags) ==
    [index |-> Len(segs),
     transform |-> [position |-> position, angle |-> angle],
     mesh |-> from_shape(shape, winding),
     attached_to |-> attachment,
     flags |-> flags]

----------------------------------------------------------------------------
\* The input state (frontend/input/mod.rs).

\* The keys the input is driven with, of the enum Key.
Keys == {"MouseLeft", "MouseRight"}

\* DragState::Nothing
DragNothing == [kind |-> "Nothing"]

\* DragState::Hold(key, start)
Hold(held, start) == [kind |-> "Hold", key |-> held, start |-> start]

\* InputState::default, and no call made yet.
InputDefault ==
    /\ key_pressed = {}
    /\ key_ack = {}
    /\ drag_state = DragNothing
    /\ mouse_history = <<>>
    /\ mouse_position = origin
    /\ called = [op |-> "default"]
    /\ returned = "unit"
    /\ reported = [k \in Keys |-> 0]

----------------------------------------------------------------------------
\* The builder's operations.

BuilderInit ==
    /\ segments = <<>>
    /\ agent = None
    /\ lastAdd = None
    /\ panic = "none"
    /\ made = None
    /\ lastCall = [op |-> "new", position |-> origin, angle |-> 0, shape |-> Panic]

\* The Agent sharing the builder's list: what the builder holds after the
\* call is what the Agent holds.
start_shared(position, angle, shape) ==
    /\ panic = "none"
    /\ LET segment == new_segment(segments, shape, "CW", position, angle, None,
                                  {"TORSO", "MIDDLE"})
       IN  /\ segments' = <<segment>>
           /\ agent' = IF IsSome(agent) THEN Some(<<segment>>) ELSE agent
    /\ lastCall' = [op |-> "start", position |-> position, angle |-> angle, shape |-> shape]
    /\ UNCHANGED <<lastAdd, panic, made>>
    /\ UNCHANGED <<aiVars, inputVars>>

\* The root appended to the list, the list not cleared.
start_keep(position, angle, shape) ==
    /\ panic = "none"
    /\ LET segment == new_segment(segments, shape, "CW", position, angle, None,
                                  {"TORSO", "MIDDLE"})
       IN  segments' = Append(segments, segment)
    /\ lastCall' = [op |-> "start", position |-> position, angle |-> angle, shape |-> shape]
    /\ UNCHANGED <<agent, lastAdd, panic, made>>
    /\ UNCHANGED <<aiVars, inputVars>>

\* AgentBuilder::start: the root is made by new_segment before the list is
\* cleared.
start(position, angle, shape) ==
    /\ panic = "none"
    /\ LET segment == new_segment(segments, shape, "CW", position, angle, None,
                                  {"TORSO", "MIDDLE"})
       IN  segments' = <<segment>>
    /\ lastCall' = [op |-> "start", position |-> position, angle |-> angle, shape |-> shape]
    /\ UNCHANGED <<agent, lastAdd, panic, made>>
    /\ UNCHANGED <<aiVars, inputVars>>

\* AgentBuilder::addw
addw(parent_index, attachment_index_offset, shape, winding, flags) ==
    /\ panic = "none"
    /\ lastCall' = [op |-> "addw", position |-> origin, angle |-> 0, shape |-> Panic]
    /\ UNCHANGED <<agent, made>>
    /\ UNCHANGED <<aiVars, inputVars>>
    /\ IF parent_index >= Len(segments)
       THEN \* line 345: self.segments[parent_index] is out of bounds
            /\ panic' = "segments[parent_index]"
            /\ UNCHANGED <<segments, lastAdd>>
       ELSE LET parent == segments[parent_index + 1]
                parent_length == shape_length(parent.mesh.shape)
                r == attachment_index(attachment_index_offset, parent_length)
            IN  IF vertex_in_bounds(r, parent.mesh.vertices)
                THEN /\ segments' = Append(segments,
                            new_segment(segments, shape, winding,
                                        attached_position(parent, r, shape),
                                        attached_angle(parent, r),
                                        new_attachment(parent, r), flags))
                     /\ lastAdd' = Some([parent |-> parent,
                                         offset |-> attachment_index_offset,
                                         attached_to |-> new_attachment(parent, r)])
                     /\ UNCHANGED panic
                ELSE \* line 350: parent.mesh.vertices[attachment_index] panics
                     /\ panic' = "vertices[attachment_index]"
                     /\ lastAdd' = Some([parent |-> parent,
                                         offset |-> attachment_index_offset,
                                         attached_to |-> None])
                     /\ UNCHANGED segments

\* AgentBuilder::add
add(parent_index, attachment_index_offset, shape, flags) ==
    addw(parent_index, attachment_index_offset, shape, "CW", flags \cup {"MIDDLE"})

\* AgentBuilder::addl
addl(parent_index, attachment_index_offset, shape, flags) ==
    addw(parent_index, attachment_index_offset, shape, "CCW", flags \cup {"LEFT"})

\* AgentBuilder::addr
addr(parent_index, attachment_index_offset, shape, flags) ==
    addw(parent_index, attachment_index_offset, shape, "CW", flags \cup {"RIGHT"})

\* AgentBuilder::index
index == IF Len(segments) = 0 THEN 0 ELSE Len(segments) - 1

\* AgentBuilder::build: the Agent owns a copy of the segment list.
build ==
    /\ panic = "none"
    /\ agent' = Some(segments)
    /\ lastCall' = [op |-> "build", position |-> origin, angle |-> 0, shape |-> Panic]
    /\ UNCHANGED <<segments, lastAdd, panic, made>>
    /\ UNCHANGED <<aiVars, inputVars>>

\* A call of Shape::new_ball.
construct_ball(r) ==
    /\ made' = Some([ctor |-> "new_ball", radius |-> r, n |-> 0, width |-> 0, height |-> 0,
                     result |-> new_ball(r)])
    /\ UNCHANGED <<segments, agent, lastAdd, panic, lastCall>>
    /\ UNCHANGED <<aiVars, inputVars>>

\* A call of Shape::new_box.
construct_box(width, height) ==
    /\ made' = Some([ctor |-> "new_box", radius |-> 0, n |-> 0,
                     width |-> width, height |-> height,
                     result |-> new_box(width, height)])
    /\ UNCHANGED <<segments, agent, lastAdd, panic, lastCall>>
    /\ UNCHANGED <<aiVars, inputVars>>

\* A call of Shape::new_star.
construct_star(radius, n) ==
    /\ made' = Some([ctor |-> "new_star", radius |-> radius, n |-> n,
                     width |-> 0, height |-> 0,
                     result |-> new_star(radius, n)])
    /\ UNCHANGED <<segments, agent, lastAdd, panic, lastCall>>
    /\ UNCHANGED <<aiVars, inputVars>>

\* The arguments the constructors are called with: radii and lobe counts on
\* both sides of what new_star asserts, box sizes of every sign.
MaxRadius == 3

MaxLobes == 8

Radii == (0 - MaxRadius)..MaxRadius

Lobes == 0..MaxLobes

Sizes == {2 * k : k \in Radii}

ShapeNext ==
    \/ \E r \in Radii : construct_ball(r)
    \/ \E width \in Sizes, height \in Sizes : construct_box(width, height)
    \/ \E radius \in Radii, n \in Lobes : construct_star(radius, n)

\* The arguments the builder is driven with.  A parent index equal to the
\* length of the list is the out-of-range case.
ParentIndexes == 0..(MaxSegments - 1)

Offsets == (0 - MaxOffset)..MaxOffset

FlagArgs == {{"ARM"} \cup ACTUATOR}

\* A recipe: start and add calls in any order, then build.
BuilderNext ==
    \/ /\ agent = None
       /\ \E shape \in Shapes : start(origin, 0, shape)
    \/ /\ agent = None
       /\ Len(segments) < MaxSegments
       /\ \E p \in ParentIndexes, o \in Offsets, shape \in Shapes, f \in FlagArgs :
              \/ add(p, o, shape, f)
              \/ addl(p, o, shape, f)
              \/ addr(p, o, shape, f)
    \/ /\ agent = None
       /\ build


----------------------------------------------------------------------------
\* ai.rs line 67: radar_range = sensor.mesh.shape.radius() * 10.
RadarFactor == 10

radar_range(sensor) == shape_radius(sensor.mesh.shape) * RadarFactor

\* The comparison taken as <=.
in_radar_range_inclusive(p, p0, range) == length2(sub(p, p0)) <= range * range

\* ai.rs line 74: (p - p0).length() < radar_range
in_radar_range(p, p0, range) == length2(sub(p, p0)) < range * range

----------------------------------------------------------------------------
\* Segment state (world/segment.rs State).  Charges are in ten-thousandths.

\* The charge set and the smoothing filter left as it was.
set_charge_keep_filter(state, charge) == [state EXCEPT !.charge = charge]

\* State::set_charge: the charge and the smoothing filter are both set.
set_charge(state, charge) == [state EXCEPT !.charge = charge, !.smooth = charge]

\* The target set and the smoothing filter moved to it.
set_target_charge_reset(state, target_charge) ==
    [state EXCEPT !.target_charge = target_charge, !.smooth = target_charge]

\* State::set_target_charge
set_target_charge(state, target_charge) ==
    [state EXCEPT !.target_charge = target_charge]

\* State::with_charge(initial, target, recharge), with Default's Idle intent
\* and no last_touched.
with_charge(initial, target, recharge) ==
    [charge |-> initial,
     target_charge |-> target,
     recharge |-> recharge,
     smooth |-> initial,
     intent |-> [kind |-> "Idle", force |-> "none"],
     last_touched |-> None]

\* The resolution of a timestep: alpha = 1 - exp(-dt / tau) is one of
\* 0/AlphaDen .. AlphaDen/AlphaDen.  dt = 0 gives 0; a dt of many time
\* constants gives 1, the f32 value of 1 - exp(-dt / tau) from dt/tau of
\* about 17 on.
AlphaDen == 2

Alphas == 0..AlphaDen

\* segment.rs line 60: 0.001, in ten-thousandths.
Epsilon == 10

abs(x) == IF x < 0 THEN 0 - x ELSE x

\* math::Exponential: dt(dt).smooth(target) moves the filter's value towards
\* target by alpha and returns it; the filter keeps the value it returned.
smooth(last, target, alpha) == (target * alpha + last * (AlphaDen - alpha)) \div AlphaDen

\* The difference compared without its absolute value.
update_no_abs(state, alpha) ==
    LET charge == smooth(state.smooth, state.target_charge, alpha)
        smoothed == [state EXCEPT !.charge = charge, !.smooth = charge]
    IN  IF charge - state.target_charge < Epsilon
        THEN set_charge(smoothed, state.recharge)
        ELSE smoothed

\* The reset left to the next call: the charge is reset when the call finds
\* it at the target.
update_reset_next(state, alpha) ==
    IF abs(state.charge - state.target_charge) < Epsilon
    THEN set_charge(state, state.recharge)
    ELSE LET charge == smooth(state.smooth, state.target_charge, alpha)
         IN  [state EXCEPT !.charge = charge, !.smooth = charge]

\* The charge integrated and never reset.
update_no_reset(state, alpha) ==
    LET charge == smooth(state.smooth, state.target_charge, alpha)
    IN  [state EXCEPT !.charge = charge, !.smooth = charge]

\* State::update(dt), dt given by its alpha.  The age counters are advanced
\* and read by nothing.
update(state, alpha) ==
    LET charge == smooth(state.smooth, state.target_charge, alpha)
        smoothed == [state EXCEPT !.charge = charge, !.smooth = charge]
    IN  IF abs(charge - state.target_charge) < Epsilon
        THEN set_charge(smoothed, state.recharge)
        ELSE smoothed

\* Intent values; the force vector is kept as the expression that makes it
\* (f is the segment's own forward force).
Idle == [kind |-> "Idle", force |-> "none"]

Move(force) == [kind |-> "Move", force |-> force]

Brake(force) == [kind |-> "Brake", force |-> force]

RunAway(force) == [kind |-> "RunAway", force |-> force]

----------------------------------------------------------------------------
\* Agents (world/agent.rs).

\* agent::Key: the identity of the entity a segment was last touched by.
\* id().type_of() is the type the identity was allocated under.
type_of(key) == key.type

\* Agent::first_segment(flags): the first segment carrying the flags.
first_segment(a, flags) ==
    LET found == {i \in 1..Len(a.segments) : contains(a.segments[i].flags, flags)}
    IN  IF found = {} THEN None
        ELSE Some(a.segments[CHOOSE i \in found : \A j \in found : i <= j])

\* The positions of the segments the behaviour system writes to.
actuators(a) == {i \in 1..Len(a.segments) : contains(a.segments[i].flags, ACTUATOR)}

\* AgentState::retarget(target, position)
retarget(state, target, position) ==
    [state EXCEPT !.target = target, !.target_position = position]

----------------------------------------------------------------------------
\* AiSystem (systems/ai.rs).

\* The fold of nearest_beacon from position i on, n being the beacon kept so
\* far: n is kept only when it is strictly nearer than beacons[i].
RECURSIVE fold_nearest(_, _, _, _)
fold_nearest(bs, i, n, p) ==
    IF i > Len(bs) THEN n
    ELSE fold_nearest(bs, i + 1,
                      IF length2(sub(p, n)) < length2(sub(p, bs[i])) THEN n ELSE bs[i],
                      p)

\* The first beacon, the fold left out.
first_beacon(bs, p) == IF bs = <<>> THEN p ELSE bs[1]

\* nearest_beacon: fold1 starts from the first beacon; p when there is none.
nearest_beacon(bs, p) ==
    IF bs = <<>> THEN p ELSE fold_nearest(bs, 2, bs[1], p)

\* A current target kept only while it is in radar range.
new_targets_in_range_only(a, sensor, tgts) ==
    LET p0 == sensor.transform.position
        current_target == a.state.target
        found == {id \in DOMAIN tgts : in_radar_range(tgts[id], p0, radar_range(sensor))}
    IN  IF current_target = None
        THEN IF found = {} THEN {None}
             ELSE {Some([id |-> id, position |-> tgts[id]]) : id \in found}
        ELSE IF Unwrap(current_target) \in found
             THEN {Some([id |-> Unwrap(current_target),
                         position |-> tgts[Unwrap(current_target)]])}
             ELSE {None}

\* A current target that is gone replaced in the same pass.
new_targets_reacquire(a, sensor, tgts) ==
    LET p0 == sensor.transform.position
        current_target == a.state.target
        found == {id \in DOMAIN tgts : in_radar_range(tgts[id], p0, radar_range(sensor))}
    IN  IF current_target /= None /\ Unwrap(current_target) \in DOMAIN tgts
        THEN {Some([id |-> Unwrap(current_target),
                    position |-> tgts[Unwrap(current_target)]])}
        ELSE IF found = {} THEN {None}
             ELSE {Some([id |-> id, position |-> tgts[id]]) : id \in found}

\* ai.rs lines 71-78: the outcomes new_target can have.  With no current
\* target, find() returns the first in-range entry in the map's iteration
\* order, which is any in-range entry; with a current target, the entry of
\* that identity.
new_targets(a, sensor, tgts) ==
    LET p0 == sensor.transform.position
        current_target == a.state.target
    IN  IF current_target = None
        THEN LET found == {id \in DOMAIN tgts :
                              in_radar_range(tgts[id], p0, radar_range(sensor))}
             IN  IF found = {} THEN {None}
                 ELSE {Some([id |-> id, position |-> tgts[id]]) : id \in found}
        ELSE IF Unwrap(current_target) \in DOMAIN tgts
             THEN {Some([id |-> Unwrap(current_target),
                         position |-> tgts[Unwrap(current_target)]])}
             ELSE {None}

\* ai.rs lines 80-83
apply_target(a, new_target, bcns) ==
    IF new_target = None
    THEN [a EXCEPT !.state =
             retarget(a.state, None, nearest_beacon(bcns, a.state.target_position))]
    ELSE [a EXCEPT !.state =
             retarget(a.state, Some(Unwrap(new_target).id), Unwrap(new_target).position)]

\* The checks with the touch looked at last.
resolve_intent_touch_last(segment, brain, r) ==
    LET flags == segment.flags
    IN  IF contains(flags, {"RUDDER", "LEFT"}) /\ r[1] > brain.hunger
        THEN Move("-f")
        ELSE IF contains(flags, {"RUDDER", "RIGHT"}) /\ r[2] > brain.hunger
        THEN Move("-f")
        ELSE IF contains(flags, {"THRUSTER"}) /\ r[3] > brain.haste
        THEN Move("f")
        ELSE IF contains(flags, {"BRAKE"}) /\ r[4] > brain.prudence
        THEN Brake("-f")
        ELSE IF IsSome(segment.state.last_touched)
        THEN IF type_of(Unwrap(segment.state.last_touched)) = "Resource"
             THEN Idle
             ELSE RunAway("f*fear")
        ELSE Idle

\* The checks with the brake looked at before the thruster.
resolve_intent_brake_first(segment, brain, r) ==
    LET flags == segment.flags
    IN  IF IsSome(segment.state.last_touched)
        THEN IF type_of(Unwrap(segment.state.last_touched)) = "Resource"
             THEN Idle
             ELSE RunAway("f*fear")
        ELSE IF contains(flags, {"RUDDER", "LEFT"}) /\ r[1] > brain.hunger
        THEN Move("-f")
        ELSE IF contains(flags, {"RUDDER", "RIGHT"}) /\ r[2] > brain.hunger
        THEN Move("-f")
        ELSE IF contains(flags, {"BRAKE"}) /\ r[4] > brain.prudence
        THEN Brake("-f")
        ELSE IF contains(flags, {"THRUSTER"}) /\ r[3] > brain.haste
        THEN Move("f")
        ELSE Idle

\* ai.rs lines 105-124: the intent of one actuator segment.
resolve_intent(segment, brain, r) ==
    LET flags == segment.flags
    IN  IF IsSome(segment.state.last_touched)
        THEN IF type_of(Unwrap(segment.state.last_touched)) = "Resource"
             THEN Idle
             ELSE RunAway("f*fear")
        ELSE IF contains(flags, {"RUDDER", "LEFT"}) /\ r[1] > brain.hunger
        THEN Move("-f")
        ELSE IF contains(flags, {"RUDDER", "RIGHT"}) /\ r[2] > brain.hunger
        THEN Move("-f")
        ELSE IF contains(flags, {"THRUSTER"}) /\ r[3] > brain.haste
        THEN Move("f")
        ELSE IF contains(flags, {"BRAKE"}) /\ r[4] > brain.prudence
        THEN Brake("-f")
        ELSE Idle

\* RunAway setting the target charge like the other intents.
apply_intent_all_targets(state, intent, brain) ==
    LET charged ==
            CASE intent.kind = "Idle" -> set_target_charge(state, brain.rest)
              [] intent.kind = "Move" -> set_target_charge(state, brain.thrust)
              [] intent.kind = "Brake" -> set_target_charge(state, brain.thrust)
              [] intent.kind = "RunAway" -> set_target_charge(state, brain.thrust)
    IN  [charged EXCEPT !.intent = intent]

\* ai.rs lines 125-131
apply_intent(state, intent, brain) ==
    LET charged ==
            CASE intent.kind = "Idle" -> set_target_charge(state, brain.rest)
              [] intent.kind = "Move" -> set_target_charge(state, brain.thrust)
              [] intent.kind = "Brake" -> set_target_charge(state, brain.thrust)
              [] intent.kind = "RunAway" -> set_charge(state, brain.thrust)
    IN  [charged EXCEPT !.intent = intent]

\* The touch taken off the segment by the pass that has answered it.
update_segment_consume_touch(segment, brain, r) ==
    IF contains(segment.flags, ACTUATOR)
    THEN [segment EXCEPT !.state =
             [apply_intent(segment.state, resolve_intent(segment, brain, r), brain)
                 EXCEPT !.last_touched = None]]
    ELSE segment

\* ai.rs lines 99-133: every segment whose flags contain ACTUATOR.
update_segment(segment, brain, r) ==
    IF contains(segment.flags, ACTUATOR)
    THEN [segment EXCEPT !.state =
             apply_intent(segment.state, resolve_intent(segment, brain, r), brain)]
    ELSE segment

\* ai.rs lines 62-134: the loop body for one minion, given the outcome of the
\* target search and the brain's response.
update_minion(a, new_target, r, bcns) ==
    LET retargeted == apply_target(a, new_target, bcns)
    IN  [retargeted EXCEPT !.segments =
            [i \in 1..Len(a.segments) |-> update_segment(a.segments[i], a.brain, r)]]

\* The loop body taking the first segment for the sensor when none is tagged.
minion_outcomes_no_skip(a, tgts, bcns, r) ==
    LET head == first_segment(a, {"SENSOR"})
        sensor == IF IsSome(head) THEN Unwrap(head) ELSE a.segments[1]
    IN  {update_minion(a, t, r, bcns) : t \in new_targets(a, sensor, tgts)}

\* The outcomes the loop body can have for one minion: skipped without a
\* sensor segment.
minion_outcomes(a, tgts, bcns, r) ==
    LET head == first_segment(a, {"SENSOR"})
    IN  IF IsSome(head)
        THEN {update_minion(a, t, r, bcns) : t \in new_targets(a, Unwrap(head), tgts)}
        ELSE {a}

\* The snapshot filled without being emptied first.
from_world_extend ==
    /\ beacons' = beacons \o emitters
    /\ targets' = [id \in DOMAIN targets \cup {i \in DOMAIN resources : resources[i].active}
                      |-> IF id \in DOMAIN resources /\ resources[id].active
                          THEN resources[id].position
                          ELSE targets[id]]
    /\ lastOp' = "from_world"
    /\ UNCHANGED <<emitters, resources, minions, response, before, arg, seq, allocated>>
    /\ UNCHANGED <<builderVars, inputVars>>

\* AiSystem::from_world
from_world ==
    /\ beacons' = emitters
    /\ targets' = [id \in {i \in DOMAIN resources : resources[i].active}
                      |-> resources[id].position]
    /\ lastOp' = "from_world"
    /\ UNCHANGED <<emitters, resources, minions, response, before, arg, seq, allocated>>
    /\ UNCHANGED <<builderVars, inputVars>>

\* The outcome in which find() returned the entry of identity pick, when
\* there is one; otherwise any outcome there is.
chosen(outcomes, pick) ==
    IF \E o \in outcomes : o.state.target = Some(pick)
    THEN CHOOSE o \in outcomes : o.state.target = Some(pick)
    ELSE CHOOSE o \in outcomes : TRUE

\* The loop body skipping the targets other minions hold at that moment.
loop_body_avoid_taken(ms, m, tgts, bcns, rs, pick) ==
    LET taken == {Unwrap(ms[o].state.target) :
                     o \in {x \in DOMAIN ms \ {m} : IsSome(ms[x].state.target)}}
        free == [id \in DOMAIN tgts \ taken |-> tgts[id]]
    IN  [ms EXCEPT ![m] = chosen(minion_outcomes(ms[m], free, bcns, rs[m]), pick[m])]

\* ai.rs lines 61-135: one iteration of `for (_, agent) in minions.iter_mut()`,
\* on the agent of identity m.
loop_body(ms, m, tgts, bcns, rs, pick) ==
    [ms EXCEPT ![m] = chosen(minion_outcomes(ms[m], tgts, bcns, rs[m]), pick[m])]

\* AiSystem::update_minions: the loop, over the minions in the order given.
RECURSIVE update_minions(_, _, _, _, _, _)
update_minions(order, ms, tgts, bcns, rs, pick) ==
    IF order = <<>> THEN ms
    ELSE update_minions(Tail(order), loop_body(ms, Head(order), tgts, bcns, rs, pick),
                        tgts, bcns, rs, pick)

\* The orders a HashMap of the keys S can be iterated in.
Orders(S) ==
    {o \in [1..Cardinality(S) -> S] : \A i, j \in 1..Cardinality(S) : o[i] = o[j] => i = j}

\* What find() may return for each minion: an identity of the snapshot (0 is
\* none of them).
Picks(ms, tgts) == [DOMAIN ms -> DOMAIN tgts \cup {0}]

\* AiSystem::to_world, with the responses rs the brains give in this pass: the
\* loop runs in the map's iteration order.
to_world(rs) ==
    /\ \E order \in Orders(DOMAIN minions), pick \in Picks(minions, targets) :
           minions' = update_minions(order, minions, targets, beacons, rs, pick)
    /\ response' = rs
    /\ before' = [m \in DOMAIN minions |-> minions[m].state]
    /\ lastOp' = "to_world"
    /\ UNCHANGED <<emitters, resources, beacons, targets, arg, seq, allocated>>
    /\ UNCHANGED <<builderVars, inputVars>>

\* Flock::next_id
next_id ==
    /\ seq' = seq + 1
    /\ allocated' = Append(allocated, seq + 1)
    /\ lastOp' = "next_id"
    /\ UNCHANGED <<emitters, resources, minions, beacons, targets, response, before, arg>>
    /\ UNCHANGED <<builderVars, inputVars>>

\* Flock::new_resource: a ball inserted under the next identity.
new_resource(initial_pos) ==
    /\ seq' = seq + 1
    /\ allocated' = Append(allocated, seq + 1)
    /\ resources' = [id \in DOMAIN resources \cup {seq + 1} |->
                        IF id = seq + 1 THEN [position |-> initial_pos, active |-> TRUE]
                        ELSE resources[id]]
    /\ lastOp' = "new_resource"
    /\ UNCHANGED <<emitters, minions, beacons, targets, response, before, arg>>
    /\ UNCHANGED <<builderVars, inputVars>>

\* Flock::new_minion: a body inserted under the next identity.
new_minion(segs, brain) ==
    /\ seq' = seq + 1
    /\ allocated' = Append(allocated, seq + 1)
    /\ minions' = [id \in DOMAIN minions \cup {seq + 1} |->
                      IF id = seq + 1
                      THEN [state |-> [target |-> None, target_position |-> origin],
                            brain |-> brain,
                            segments |-> segs]
                      ELSE minions[id]]
    /\ lastOp' = "new_minion"
    /\ UNCHANGED <<emitters, resources, beacons, targets, response, before, arg>>
    /\ UNCHANGED <<builderVars, inputVars>>

\* The last identity handed back when its agent is killed.
kill_release(id) ==
    /\ resources' = [i \in DOMAIN resources \ {id} |-> resources[i]]
    /\ minions' = [i \in DOMAIN minions \ {id} |-> minions[i]]
    /\ seq' = IF id = seq THEN seq - 1 ELSE seq
    /\ lastOp' = "kill"
    /\ arg' = id
    /\ UNCHANGED <<emitters, beacons, targets, response, before, allocated>>
    /\ UNCHANGED <<builderVars, inputVars>>

\* The agents of lower identity removed with the one that is killed.
kill_older(id) ==
    /\ resources' = [i \in {j \in DOMAIN resources : j > id} |-> resources[i]]
    /\ minions' = [i \in {j \in DOMAIN minions : j > id} |-> minions[i]]
    /\ lastOp' = "kill"
    /\ arg' = id
    /\ UNCHANGED <<emitters, beacons, targets, response, before, seq, allocated>>
    /\ UNCHANGED <<builderVars, inputVars>>

\* Flock::get(id), over the flock of the resources and that of the minions.
get(id) ==
    IF id \in DOMAIN resources THEN Some(resources[id])
    ELSE IF id \in DOMAIN minions THEN Some(minions[id])
    ELSE None

\* Flock::kill: agents.remove(id), of a resource or a minion; nothing is
\* removed when no agent has the identity.
kill(id) ==
    /\ resources' = [i \in DOMAIN resources \ {id} |-> resources[i]]
    /\ minions' = [i \in DOMAIN minions \ {id} |-> minions[i]]
    /\ lastOp' = "kill"
    /\ arg' = id
    /\ UNCHANGED <<emitters, beacons, targets, response, before, seq, allocated>>
    /\ UNCHANGED <<builderVars, inputVars>>

\* The physics stage moving a resource.
move_resource(id, position) ==
    /\ id \in DOMAIN resources
    /\ resources[id].position /= position
    /\ resources' = [resources EXCEPT ![id].position = position]
    /\ lastOp' = "move_resource"
    /\ UNCHANGED <<emitters, minions, beacons, targets, response, before, arg, seq, allocated>>
    /\ UNCHANGED <<builderVars, inputVars>>

\* A resource ceasing to be active (AgentState::is_active).
deactivate(id) ==
    /\ id \in DOMAIN resources
    /\ resources[id].active
    /\ resources' = [resources EXCEPT ![id].active = FALSE]
    /\ lastOp' = "deactivate"
    /\ UNCHANGED <<emitters, minions, beacons, targets, response, before, arg, seq, allocated>>
    /\ UNCHANGED <<builderVars, inputVars>>

\* A contact reported by the physics stage: segment i of minion m was last
\* touched by key.
touch(m, i, key) ==
    /\ m \in DOMAIN minions
    /\ i \in 1..Len(minions[m].segments)
    /\ minions' = [minions EXCEPT ![m].segments[i].state.last_touched = Some(key)]
    /\ lastOp' = "touch"
    /\ UNCHANGED <<emitters, resources, beacons, targets, response, before, arg, seq, allocated>>
    /\ UNCHANGED <<builderVars, inputVars>>

\* The per-tick charge integration of one segment: segment.state.update(dt).
tick(m, i, alpha) ==
    /\ m \in DOMAIN minions
    /\ i \in 1..Len(minions[m].segments)
    /\ minions' = [minions EXCEPT ![m].segments[i].state = update(@, alpha)]
    /\ lastOp' = "update"
    /\ arg' = alpha
    /\ UNCHANGED <<emitters, resources, beacons, targets, response, before, seq, allocated>>
    /\ UNCHANGED <<builderVars, inputVars>>

\* A forced override: segment.state.set_charge(charge).
force_charge(m, i, charge) ==
    /\ m \in DOMAIN minions
    /\ i \in 1..Len(minions[m].segments)
    /\ minions' = [minions EXCEPT ![m].segments[i].state = set_charge(@, charge)]
    /\ lastOp' = "set_charge"
    /\ arg' = charge
    /\ UNCHANGED <<emitters, resources, beacons, targets, response, before, seq, allocated>>
    /\ UNCHANGED <<builderVars, inputVars>>

\* segment.state.set_target_charge(target_charge).
force_target(m, i, target_charge) ==
    /\ m \in DOMAIN minions
    /\ i \in 1..Len(minions[m].segments)
    /\ minions' = [minions EXCEPT ![m].segments[i].state = set_target_charge(@, target_charge)]
    /\ lastOp' = "set_target_charge"
    /\ arg' = target_charge
    /\ UNCHANGED <<emitters, resources, beacons, targets, response, before, seq, allocated>>
    /\ UNCHANGED <<builderVars, inputVars>>

----------------------------------------------------------------------------
\* The worlds the behaviour system is driven with.

\* Largest component of a brain's response.
MaxResponse == 1

Responses == [1..4 -> 0..MaxResponse]

NoResponse == [i \in 1..4 |-> 0]

\* Resource positions seen from a sensor of radius 1 at the origin (radar
\* range 10): in range, and exactly at range.
near == <<6, 6>>

edge == <<10, 0>>

ResourceIds == {1, 2}

\* Emitters: none; two at the same distance from the origin and from near;
\* two of which the second is nearer to near than the first.
EmitterLists == {<<>>, <<<<0, 6>>, <<6, 0>>>>, <<<<0, 6>>, <<10, 6>>>>}

\* The keys a segment can be touched by.
TouchKeys == {[type |-> "Resource", id |-> 1], [type |-> "Minion", id |-> 4]}

\* A brain's traits; rest and thrust are charges in ten-thousandths.
Brains ==
    [hunger : {0, 1}, haste : {0, 1}, prudence : {0, 1},
     fear : {1}, rest : {1000}, thrust : {5000}]

\* A segment of a minion: a ball of radius 1 at the origin, with the state
\* new_minion gives its segments.
segment_of(i, flags) ==
    [index |-> i,
     transform |-> [position |-> origin, angle |-> 0],
     mesh |-> from_shape(new_ball(1), "CW"),
     attached_to |-> IF i = 0 THEN None ELSE Some([index |-> 0, attachment_point |-> 0]),
     state |-> with_charge(0, 3000, 10000),
     flags |-> flags]

\* A body as new_minion builds it: torso, head with the sensor, and actuators
\* on the left, on the right and in the middle.
body ==
    <<segment_of(0, {"TORSO", "MIDDLE"}),
      segment_of(1, {"HEAD", "SENSOR", "MIDDLE"}),
      segment_of(2, {"ARM", "LEFT"} \cup ACTUATOR),
      segment_of(3, {"ARM", "RIGHT"} \cup ACTUATOR),
      segment_of(4, {"TAIL", "MIDDLE"} \cup ACTUATOR)>>

\* A body without a sensor segment.
blind_body ==
    <<segment_of(0, {"TORSO", "MIDDLE"}),
      segment_of(1, {"TAIL", "MIDDLE"} \cup ACTUATOR)>>

\* Bodies of a head and one actuator: on the left, on the right, in the middle.
small_body(side) ==
    <<segment_of(0, {"HEAD", "SENSOR", "MIDDLE"}),
      segment_of(1, {"ARM", side} \cup ACTUATOR)>>

SmallBodies == {small_body("LEFT"), small_body("RIGHT"), small_body("MIDDLE")}

minion_of(segs, brain) ==
    [state |-> [target |-> None, target_position |-> origin],
     brain |-> brain,
     segments |-> segs]

\* A Flock that has handed out the identities 1..n.
handed_out(n) ==
    /\ seq = n
    /\ allocated = [i \in 1..n |-> i]

\* AiSystem::default, and no pass made yet.
AiDefault ==
    /\ beacons = <<>>
    /\ targets = <<>>
    /\ response = [m \in DOMAIN minions |-> NoResponse]
    /\ before = [m \in DOMAIN minions |-> minions[m].state]
    /\ lastOp = "init"
    /\ arg = 0

\* The builder specification: a new builder, and an empty world.
BuilderWorld ==
    /\ BuilderInit
    /\ InputDefault
    /\ emitters = <<>>
    /\ resources = <<>>
    /\ minions = <<>>
    /\ handed_out(0)
    /\ AiDefault

SpecBuilder == BuilderWorld /\ [][BuilderNext]_vars

\* The shape constructors called with every argument, in an empty world.
SpecShape == BuilderWorld /\ [][ShapeNext]_vars

\* Targeting: every world of two resources and every list of emitters, one
\* minion with a sensor and one without, one brain that never responds.
CalmBrain ==
    [hunger |-> 1, haste |-> 1, prudence |-> 1, fear |-> 1, rest |-> 1000, thrust |-> 5000]

TargetInit ==
    /\ BuilderInit
    /\ InputDefault
    /\ emitters \in EmitterLists
    /\ resources \in [ResourceIds -> [position : {near, edge}, active : BOOLEAN]]
    /\ minions = (3 :> minion_of(body, CalmBrain)) @@ (4 :> minion_of(blind_body, CalmBrain))
    /\ handed_out(4)
    /\ AiDefault

TargetNext ==
    \/ from_world
    \/ to_world([m \in DOMAIN minions |-> NoResponse])
    \/ \E id \in ResourceIds : kill(id)
    \/ \E id \in ResourceIds, position \in {near, edge} : move_resource(id, position)
    \/ \E id \in ResourceIds : deactivate(id)

SpecAi == TargetInit /\ [][TargetNext]_vars

\* Retention: one minion with a sensor; resources in range and beyond radar
\* range, which move, and are killed.
far == <<12, 0>>

RetainInit ==
    /\ BuilderInit
    /\ InputDefault
    /\ emitters \in EmitterLists
    /\ resources \in [ResourceIds -> [position : {near, far}, active : {TRUE}]]
    /\ minions = (3 :> minion_of(small_body("LEFT"), CalmBrain))
    /\ handed_out(3)
    /\ AiDefault

RetainNext ==
    \/ from_world
    \/ to_world([m \in DOMAIN minions |-> NoResponse])
    \/ \E id \in ResourceIds : kill(id)
    \/ \E id \in ResourceIds, position \in {near, far} : move_resource(id, position)

SpecRetain == RetainInit /\ [][RetainNext]_vars

\* Ordering: the same worlds with two minions that both have a sensor.
OrderInit ==
    /\ BuilderInit
    /\ InputDefault
    /\ emitters \in EmitterLists
    /\ resources \in [ResourceIds -> [position : {near, edge}, active : BOOLEAN]]
    /\ minions = (3 :> minion_of(small_body("LEFT"), CalmBrain))
                     @@ (4 :> minion_of(small_body("RIGHT"), CalmBrain))
    /\ handed_out(4)
    /\ AiDefault

OrderNext ==
    \/ from_world
    \/ to_world([m \in DOMAIN minions |-> NoResponse])
    \/ \E id \in ResourceIds : kill(id)

SpecOrder == OrderInit /\ [][OrderNext]_vars

\* A life: a builder that is driven on after its build, next to a world of one
\* minion whose passes and charge updates (of no timestep, and of a long one)
\* go on.  start is called with two sets of arguments: a position, an angle
\* (in quarter turns) and a shape.
StartArgs == {<<origin, 0, new_ball(1)>>, <<<<6, 6>>, 1, new_star(1, 2)>>}

LifeInit ==
    /\ BuilderInit
    /\ InputDefault
    /\ emitters = <<>>
    /\ resources = <<>>
    /\ minions = (3 :> minion_of(small_body("LEFT"), CalmBrain))
    /\ handed_out(3)
    /\ AiDefault

LifeNext ==
    \/ \E a \in StartArgs : start(a[1], a[2], a[3])
    \/ /\ Len(segments) < MaxSegments
       /\ \E p \in ParentIndexes : add(p, 0, new_ball(1), {"ARM"} \cup ACTUATOR)
    \/ /\ agent = None
       /\ build
    \/ to_world([m \in DOMAIN minions |-> NoResponse])
    \/ \E alpha \in {0, AlphaDen} : tick(3, 2, alpha)

SpecLife == LifeInit /\ [][LifeNext]_vars

\* Intent: an empty world, one minion of a head and one actuator, every
\* brain, every response, every touch of the actuator.
IntentInit ==
    /\ BuilderInit
    /\ InputDefault
    /\ emitters = <<>>
    /\ resources = <<>>
    /\ \E brain \in Brains, segs \in SmallBodies : minions = (3 :> minion_of(segs, brain))
    /\ handed_out(3)
    /\ AiDefault

IntentNext ==
    \/ \E rs \in [DOMAIN minions -> Responses] : to_world(rs)
    \/ \E m \in DOMAIN minions, key \in TouchKeys :
           \E i \in actuators(minions[m]) : touch(m, i, key)

SpecIntent == IntentInit /\ [][IntentNext]_vars

\* Tags: one minion of a head, a leg tagged THRUSTER alone, a tail with the
\* composite ACTUATOR tag and a belly with no actuator tag; a hasty and a calm
\* brain, every response, every touch of the leg and of the tail.
tagged_body ==
    <<segment_of(0, {"HEAD", "SENSOR", "MIDDLE"}),
      segment_of(1, {"LEG", "RIGHT", "THRUSTER"}),
      segment_of(2, {"TAIL", "MIDDLE"} \cup ACTUATOR),
      segment_of(3, {"BELLY", "MIDDLE"})>>

TagsInit ==
    /\ BuilderInit
    /\ InputDefault
    /\ emitters = <<>>
    /\ resources = <<>>
    /\ \E brain \in {b \in Brains : b.hunger = 0 /\ b.prudence = 0} :
           minions = (3 :> minion_of(tagged_body, brain))
    /\ handed_out(3)
    /\ AiDefault

TagsNext ==
    \/ \E rs \in [DOMAIN minions -> Responses] : to_world(rs)
    \/ \E m \in DOMAIN minions, key \in TouchKeys :
           \E i \in {2, 3} : touch(m, i, key)

SpecTags == TagsInit /\ [][TagsNext]_vars

\* Charge: one minion of one segment, built with charge 0, every target of
\* TargetArgs and every recharge baseline of ChargeArgs, touched by another
\* minion or not; updates of every timestep and forced overrides in any order.
ChargeArgs == {0, 5000, 10000}

TargetArgs == {0, 10000}

ChargeInit ==
    /\ BuilderInit
    /\ InputDefault
    /\ emitters = <<>>
    /\ resources = <<>>
    /\ \E target \in TargetArgs, recharge \in ChargeArgs,
          touched \in {None, Some([type |-> "Minion", id |-> 4])} :
           minions = (3 :> minion_of(
                               <<[segment_of(0, {"TAIL", "MIDDLE"} \cup ACTUATOR)
                                     EXCEPT !.state =
                                         [with_charge(0, target, recharge)
                                             EXCEPT !.last_touched = touched]]>>,
                               CalmBrain))
    /\ handed_out(3)
    /\ AiDefault

ChargeNext ==
    \/ \E alpha \in Alphas : tick(3, 1, alpha)
    \/ \E charge \in ChargeArgs : force_charge(3, 1, charge)
    \/ \E target_charge \in TargetArgs : force_target(3, 1, target_charge)

SpecCharge == ChargeInit /\ [][ChargeNext]_vars

\* The cycle: the same segments, their target held as it is, and nothing
\* but updates of a timestep above zero, which go on as long as the world
\* runs.
CycleNext ==
    \E alpha \in 1..AlphaDen : tick(3, 1, alpha)

SpecCycle == ChargeInit /\ [][CycleNext]_vars /\ WF_vars(CycleNext)

\* The registry: Flock::new(), then allocations, insertions and kills in any
\* order, up to MaxIds identities.
MaxIds == 4

FlockInit ==
    /\ BuilderInit
    /\ InputDefault
    /\ emitters = <<>>
    /\ resources = <<>>
    /\ minions = <<>>
    /\ handed_out(0)
    /\ AiDefault

FlockNext ==
    \/ seq < MaxIds /\ next_id
    \/ seq < MaxIds /\ \E initial_pos \in {near, edge} : new_resource(initial_pos)
    \/ seq < MaxIds /\ new_minion(blind_body, CalmBrain)
    \/ \E id \in 0..MaxIds : kill(id)

SpecFlock == FlockInit /\ [][FlockNext]_vars

----------------------------------------------------------------------------
\* Properties of the builder.

\* C1: every segment of a built Agent has a stored index equal to its
\* position in the Agent's segment list.
C1_IndexEqualsPosition ==
    IsSome(agent) =>
        \A i \in 1..Len(Unwrap(agent)) : Unwrap(agent)[i].index = i - 1

\* C2: in a built Agent every attached segment's parent index is strictly
\* less than the segment's own index, and segment 0 has no attachment.
C2_ParentIndexBelowOwn ==
    IsSome(agent) =>
        /\ \A i \in 1..Len(Unwrap(agent)) :
               IsSome(Unwrap(agent)[i].attached_to) =>
                   Unwrap(Unwrap(agent)[i].attached_to).index < Unwrap(agent)[i].index
        /\ Len(Unwrap(agent)) > 0 => Unwrap(agent)[1].attached_to = None

\* C3: no add fails on the vertex index; the Attachment an add makes has its
\* attachment_point in [0, vertex count of the parent); and every Attachment
\* stored in a built Agent has its attachment_point in [0, vertex count of
\* the segment of the Agent that the Attachment's index names).
C3_AttachmentPointValid ==
    /\ panic /= "vertices[attachment_index]"
    /\ (IsSome(lastAdd) /\ IsSome(Unwrap(lastAdd).attached_to)) =>
           /\ Unwrap(Unwrap(lastAdd).attached_to).attachment_point >= 0
           /\ Unwrap(Unwrap(lastAdd).attached_to).attachment_point
                  < Unwrap(lastAdd).parent.mesh.vertices
    /\ IsSome(agent) =>
           \A i \in 1..Len(Unwrap(agent)) :
               IsSome(Unwrap(agent)[i].attached_to) =>
                   LET a == Unwrap(Unwrap(agent)[i].attached_to)
                   IN  /\ a.index < Len(Unwrap(agent))
                       /\ a.attachment_point >= 0
                       /\ a.attachment_point < Unwrap(agent)[a.index + 1].mesh.vertices

\* C4: for a parent with c vertices, an add with offset k + c (0 <= k < c)
\* completes and selects the vertex that offset k selects.
C4_OffsetPeriodic ==
    IsSome(lastAdd) =>
        LET parent == Unwrap(lastAdd).parent
            c == parent.mesh.vertices
            o == Unwrap(lastAdd).offset
            k == attachment_index(o - c, shape_length(parent.mesh.shape))
        IN  (o >= c /\ o < 2 * c) =>
                /\ IsSome(Unwrap(lastAdd).attached_to)
                /\ vertex_in_bounds(k, c)
                /\ Unwrap(lastAdd).attached_to = new_attachment(parent, k)

\* C4 witness: on a parent with 4 vertices, offset 5 has selected vertex 1.
C4_Witness ==
    /\ IsSome(lastAdd)
    /\ Unwrap(lastAdd).parent.mesh.vertices = 4
    /\ Unwrap(lastAdd).offset = 5
    /\ IsSome(Unwrap(lastAdd).attached_to)
    /\ Unwrap(Unwrap(lastAdd).attached_to).attachment_point = 1

\* C5: for every offset, negative ones and those below -c included, the add
\* completes and the selected vertex is the mathematical (offset + c) mod c.
C5_MathematicalModulo ==
    IsSome(lastAdd) =>
        LET c == Unwrap(lastAdd).parent.mesh.vertices
            o == Unwrap(lastAdd).offset
        IN  /\ IsSome(Unwrap(lastAdd).attached_to)
            /\ Unwrap(Unwrap(lastAdd).attached_to).attachment_point = (o + c) % c

----------------------------------------------------------------------------
\* Properties of the shapes.

\* C16: a constructor call with invalid parameters yields no Shape: a star
\* with fewer than 2 lobes, and a non-positive radius given to new_star or to
\* new_ball.
C16_InvalidShapeFails ==
    IsSome(made) =>
        LET c == Unwrap(made)
        IN  (\/ c.ctor = "new_star" /\ (c.n < 2 \/ c.radius <= 0)
             \/ c.ctor = "new_ball" /\ c.radius <= 0) =>
                c.result = Panic

\* C17: the vertices of a constructed Ball are the one point (0, radius), of
\* a Box five points, of a Star with n lobes (n in 2..8) 2n points; every
\* constructed shape has at least one vertex.
C17_VertexCounts ==
    (IsSome(made) /\ Unwrap(made).result /= Panic) =>
        LET c == Unwrap(made)
        IN  /\ c.ctor = "new_ball" => vertices(c.result) = <<<<0, c.radius>>>>
            /\ c.ctor = "new_box" => Len(vertices(c.result)) = 5
            /\ (c.ctor = "new_star" /\ c.n \in 2..8) => Len(vertices(c.result)) = 2 * c.n
            /\ Len(vertices(c.result)) >= 1

\* C17 witness: a star of 8 lobes has been constructed, with 16 vertices.
C17_Witness ==
    /\ IsSome(made)
    /\ Unwrap(made).ctor = "new_star"
    /\ Unwrap(made).n = 8
    /\ Unwrap(made).result.kind = "Star"
    /\ Len(vertices(Unwrap(made).result)) = 16

----------------------------------------------------------------------------
\* Properties of an Agent's structure.

\* C21: once an Agent is built no later start or add on the builder changes
\* it; and a to_world pass or a charge update leaves every agent of the world
\* with the segments it had: as many, each with the index, the flags and the
\* attachment it had.
C21_StructureFixed ==
    [][/\ IsSome(agent) => agent' = agent
       /\ lastOp' \in {"to_world", "update"} =>
              \A m \in DOMAIN minions :
                  /\ m \in DOMAIN minions'
                  /\ Len(minions'[m].segments) = Len(minions[m].segments)
                  /\ \A i \in 1..Len(minions[m].segments) :
                         /\ minions'[m].segments[i].index = minions[m].segments[i].index
                         /\ minions'[m].segments[i].flags = minions[m].segments[i].flags
                         /\ minions'[m].segments[i].attached_to
                                = minions[m].segments[i].attached_to]_vars

\* C21 witness: the builder was restarted after its build and holds another
\* list than the Agent, and the minion's actuator has been through a pass and
\* charge updates.
C21_Witness ==
    /\ IsSome(agent)
    /\ Len(Unwrap(agent)) = 2
    /\ lastCall.op = "start"
    /\ Len(segments) = 1
    /\ lastOp = "update"
    /\ minions[3].segments[2].state.target_charge = 1000
    /\ minions[3].segments[2].state.charge > 0
    /\ Len(minions[3].segments) = 2

----------------------------------------------------------------------------
\* Properties of the registry.

\* C18: every identity handed out is strictly greater than every identity
\* handed out before it, so none is handed out twice; every agent of the
\* Flock has an identity that was handed out; no call lowers the counter and
\* kill leaves it as it is, also when it removes the agent of the last
\* identity.
C18_MonotonicIds ==
    /\ [](/\ \A i \in 1..Len(allocated) : \A j \in 1..Len(allocated) :
                 i < j => allocated[i] < allocated[j]
          /\ \A id \in DOMAIN resources \cup DOMAIN minions :
                 \E i \in 1..Len(allocated) : allocated[i] = id)
    /\ [][/\ seq' >= seq
          /\ lastOp' = "kill" => seq' = seq
          /\ Len(allocated') > Len(allocated) =>
                 \A i \in 1..Len(allocated) : allocated'[Len(allocated')] > allocated[i]]_vars

\* C18 witness: identity 3 has been handed out after the agents of 1 and 2
\* were removed.
C18_Witness ==
    /\ allocated = <<1, 2, 3>>
    /\ DOMAIN resources = {}
    /\ DOMAIN minions = {3}
    /\ lastOp = "new_minion"

\* C22: an agent of the Flock stays retrievable by get over every step that
\* is no kill; kill(id) leaves get(id) None at once and every other agent as
\* it was, and changes nothing of the Flock when no agent has the identity.
C22_RetrievableUntilKilled ==
    [][/\ lastOp' /= "kill" =>
              \A id \in 0..MaxIds : IsSome(get(id)) => get(id)' = get(id)
       /\ lastOp' = "kill" =>
              \A killed \in 0..MaxIds :
                  killed = arg' =>
                      /\ get(killed)' = None
                      /\ \A id \in (0..MaxIds) \ {killed} : get(id)' = get(id)
                      /\ get(killed) = None =>
                             /\ resources' = resources
                             /\ minions' = minions
                             /\ seq' = seq]_vars

\* C22 witness: of three agents the second has been killed, and the first and
\* the third are still there.
C22_Witness ==
    /\ lastOp = "kill"
    /\ arg = 2
    /\ allocated = <<1, 2, 3>>
    /\ get(1) /= None
    /\ get(2) = None
    /\ get(3) /= None

----------------------------------------------------------------------------
\* Properties of the behaviour system.

\* C6: after a to_world pass, a minion with a sensor that had no target has
\* for target an in-range entry of the snapshot, with that entry's position,
\* whenever the snapshot has an in-range entry; a target it has acquired is
\* always an in-range entry of the snapshot.
C6_TargetAcquisition ==
    lastOp = "to_world" =>
        \A m \in DOMAIN minions :
            LET head == first_segment(minions[m], {"SENSOR"})
                in_range ==
                    {id \in DOMAIN targets :
                        length2(sub(targets[id], Unwrap(head).transform.position))
                            < (10 * Unwrap(head).mesh.shape.radius)
                                  * (10 * Unwrap(head).mesh.shape.radius)}
            IN  (IsSome(head) /\ before[m].target = None) =>
                    /\ in_range /= {} =>
                           \E id \in in_range :
                               /\ minions[m].state.target = Some(id)
                               /\ minions[m].state.target_position = targets[id]
                    /\ IsSome(minions[m].state.target) =>
                           Unwrap(minions[m].state.target) \in in_range

\* C6 witness: with one resource in range and one exactly at radar range in
\* the snapshot, the minion that had no target has acquired the one in range.
C6_Witness ==
    /\ lastOp = "to_world"
    /\ before[3].target = None
    /\ DOMAIN targets = {1, 2}
    /\ targets[1] = edge
    /\ targets[2] = near
    /\ minions[3].state.target = Some(2)
    /\ minions[3].state.target_position = near

C10_IntentToCharge ==
    [][lastOp' = "to_world" =>
          \A m \in DOMAIN minions :
              IsSome(first_segment(minions[m], {"SENSOR"})) =>
                  \A i \in 1..Len(minions[m].segments) :
                      ACTUATOR \subseteq minions[m].segments[i].flags =>
                          LET old == minions[m].segments[i].state
                              new == minions'[m].segments[i].state
                              brain == minions[m].brain
                          IN  /\ new.intent = resolve_intent(minions[m].segments[i],
                                                             brain, response'[m])
                              /\ new.intent.kind = "Idle" =>
                                     new.target_charge = brain.rest /\ new.charge = old.charge
                              /\ new.intent.kind \in {"Move", "Brake"} =>
                                     new.target_charge = brain.thrust /\ new.charge = old.charge
                              /\ new.intent.kind = "RunAway" =>
                                     /\ new.charge = brain.thrust
                                     /\ new.smooth = brain.thrust
                                     /\ new.target_charge = old.target_charge]_vars

\* C10 witness: a segment that ran away has the thrust charge and the target
\* charge it was built with; before, a pass had left it Idle at its rest
\* target.
C10_Witness ==
    /\ lastOp = "to_world"
    /\ minions[3].segments[2].state.intent.kind = "RunAway"
    /\ minions[3].segments[2].state.charge = minions[3].brain.thrust
    /\ minions[3].segments[2].state.target_charge = 3000

\* C11: a to_world pass leaves a minion without a sensor segment as it was:
\* its target, its target position and every segment's intent, charge and
\* target_charge; and the pass completes.
C11_SensorlessSkipped ==
    [][lastOp' = "to_world" =>
          \A m \in DOMAIN minions :
              first_segment(minions[m], {"SENSOR"}) = None =>
                  /\ m \in DOMAIN minions'
                  /\ minions'[m].state = minions[m].state
                  /\ \A i \in 1..Len(minions[m].segments) :
                         minions'[m].segments[i].state = minions[m].segments[i].state]_vars

\* C11 witness: after a pass with beacons in the snapshot, the sensing minion's
\* actuator has the rest target while the actuator of the minion without a
\* sensor has the target charge it was built with, and no target position.
C11_Witness ==
    /\ lastOp = "to_world"
    /\ beacons /= <<>>
    /\ minions[3].segments[3].state.target_charge = 1000
    /\ minions[3].state.target_position /= origin
    /\ first_segment(minions[4], {"SENSOR"}) = None
    /\ actuators(minions[4]) /= {}
    /\ minions[4].segments[2].state.target_charge = 3000
    /\ minions[4].state.target_position = origin

\* C24: after a to_world pass, an actuator segment last touched by a resource
\* has the intent that the same segment has when it is untouched, for the
\* same flags, response and thresholds.
C24_ResourceTouchFallsThrough ==
    lastOp = "to_world" =>
        \A m \in DOMAIN minions :
            IsSome(first_segment(minions[m], {"SENSOR"})) =>
                \A i \in 1..Len(minions[m].segments) :
                    LET seg == minions[m].segments[i]
                        untouched == [seg EXCEPT !.state.last_touched = None]
                    IN  (/\ ACTUATOR \subseteq seg.flags
                         /\ seg.state.last_touched /= None
                         /\ Unwrap(seg.state.last_touched).type = "Resource") =>
                            seg.state.intent
                                = resolve_intent(untouched, minions[m].brain, response[m])

\* C25: after a to_world pass that left a minion with a sensor without a
\* target, its target position is, of the beacons at the least distance from
\* its previous target position, the first of the list; and its previous
\* target position when there is no beacon.
C25_FirstBeaconOnTies ==
    lastOp = "to_world" =>
        \A m \in DOMAIN minions :
            (/\ IsSome(first_segment(minions[m], {"SENSOR"}))
             /\ minions[m].state.target = None) =>
                LET p == before[m].target_position
                    least == {i \in 1..Len(beacons) :
                                 \A j \in 1..Len(beacons) :
                                     length2(sub(p, beacons[i])) <= length2(sub(p, beacons[j]))}
                IN  IF beacons = <<>>
                    THEN minions[m].state.target_position = p
                    ELSE \E i \in least :
                             /\ \A j \in least : i <= j
                             /\ minions[m].state.target_position = beacons[i]

\* C27: after a to_world pass, a minion whose target was in the snapshot has
\* that same target, wherever the snapshot places it, and the snapshot's
\* position of it for target position.
C27_RetentionIgnoresRange ==
    lastOp = "to_world" =>
        \A m \in DOMAIN minions :
            (/\ IsSome(first_segment(minions[m], {"SENSOR"}))
             /\ IsSome(before[m].target)
             /\ Unwrap(before[m].target) \in DOMAIN targets) =>
                /\ minions[m].state.target = before[m].target
                /\ minions[m].state.target_position = targets[Unwrap(before[m].target)]

\* C27 witness: the target has moved beyond radar range while another
\* resource is in range; the minion has kept it and follows it there.
C27_Witness ==
    /\ lastOp = "to_world"
    /\ before[3] = [target |-> Some(1), target_position |-> near]
    /\ DOMAIN targets = {1, 2}
    /\ targets[1] = far
    /\ targets[2] = near
    /\ minions[3].state = [target |-> Some(1), target_position |-> far]

C29_SingleKindIsActuator ==
    lastOp = "to_world" =>
        \A m \in DOMAIN minions :
            IsSome(first_segment(minions[m], {"SENSOR"})) =>
                \A i \in 1..Len(minions[m].segments) :
                    LET seg == minions[m].segments[i]
                        brain == minions[m].brain
                    IN  seg.flags \cap {"THRUSTER", "RUDDER", "BRAKE"} /= {} =>
                            /\ seg.state.intent = resolve_intent(seg, brain, response[m])
                            /\ seg.state.intent.kind = "Idle" =>
                                   seg.state.target_charge = brain.rest
                            /\ seg.state.intent.kind \in {"Move", "Brake"} =>
                                   seg.state.target_charge = brain.thrust
                            /\ seg.state.intent.kind = "RunAway" =>
                                   seg.state.charge = brain.thrust

----------------------------------------------------------------------------
\* Properties of the charge dynamics.

\* C12: an update(dt) computes target*alpha + charge*(1 - alpha); when that is
\* within 0.001 of target_charge the charge and the smoothing filter are left
\* at the recharge baseline, otherwise the charge is the computed value.
C12_ChargeResetRule ==
    [][lastOp' = "update" =>
          LET old == minions[3].segments[1].state
              new == minions'[3].segments[1].state
              smoothed == (old.target_charge * arg' + old.charge * (AlphaDen - arg'))
                              \div AlphaDen
              diff == smoothed - old.target_charge
          IN  IF diff > 0 - 10 /\ diff < 10
              THEN new.charge = old.recharge /\ new.smooth = old.recharge
              ELSE new.charge = smoothed]_vars

\* C12 witness: an update of a large timestep towards the target 1 has left
\* the charge and the filter at the recharge baseline 0.
C12_Witness ==
    /\ lastOp = "update"
    /\ arg = AlphaDen
    /\ minions[3].segments[1].state.target_charge = 10000
    /\ minions[3].segments[1].state.recharge = 0
    /\ minions[3].segments[1].state.charge = 0
    /\ minions[3].segments[1].state.smooth = 0

\* C13 as claimed: from charge 0 and target 1, the charge read back after an
\* update of a large timestep is within 0.001 of 1 (the reset being left to
\* the following update).
C13_ResetOnFollowingUpdate ==
    [][(/\ lastOp = "init"
        /\ minions[3].segments[1].state.target_charge = 10000
        /\ lastOp' = "update"
        /\ arg' = AlphaDen) =>
           /\ minions'[3].segments[1].state.charge > 10000 - 10
           /\ minions'[3].segments[1].state.charge < 10000 + 10]_vars

\* C13 amended: from charge 0 and target 1, an update of a large timestep
\* resets the charge to the recharge baseline in that same call: the charge
\* read back, and the filter, are the recharge baseline.
C13_ResetInSameUpdate ==
    [][(/\ lastOp = "init"
        /\ minions[3].segments[1].state.target_charge = 10000
        /\ lastOp' = "update"
        /\ arg' = AlphaDen) =>
           /\ minions'[3].segments[1].state.charge = minions[3].segments[1].state.recharge
           /\ minions'[3].segments[1].state.smooth = minions[3].segments[1].state.recharge]_vars

\* C13 witness: after an update of a large timestep the charge is at the
\* recharge baseline 0.5, the target being 1.
C13_Witness ==
    /\ lastOp = "update"
    /\ arg = AlphaDen
    /\ minions[3].segments[1].state.target_charge = 10000
    /\ minions[3].segments[1].state.recharge = 5000
    /\ minions[3].segments[1].state.charge = 5000

\* C14: right after set_charge(x) the charge and the smoothing filter are x
\* and target_charge is as it was; an update that follows integrates from x.
C14_SetChargeImmediate ==
    [][/\ lastOp' = "set_charge" =>
              /\ minions'[3].segments[1].state.charge = arg'
              /\ minions'[3].segments[1].state.smooth = arg'
              /\ minions'[3].segments[1].state.target_charge
                     = minions[3].segments[1].state.target_charge
       /\ (lastOp = "set_charge" /\ lastOp' = "update") =>
              LET old == minions[3].segments[1].state
                  smoothed == (old.target_charge * arg' + arg * (AlphaDen - arg'))
                                  \div AlphaDen
                  diff == smoothed - old.target_charge
              IN  minions'[3].segments[1].state.charge
                      = IF diff > 0 - 10 /\ diff < 10 THEN old.recharge ELSE smoothed]_vars

\* C14 witness: set_charge(0.5) on a segment with target 1 and recharge
\* baseline 0 has left charge and filter at 0.5.
C14_Witness ==
    /\ lastOp = "set_charge"
    /\ arg = 5000
    /\ minions[3].segments[1].state.charge = 5000
    /\ minions[3].segments[1].state.smooth = 5000
    /\ minions[3].segments[1].state.target_charge = 10000
    /\ minions[3].segments[1].state.recharge = 0

\* C15: set_target_charge(x) sets target_charge to x and leaves the charge,
\* the smoothing filter, the recharge baseline, the intent and last_touched
\* as they were.
C15_SetTargetChargeFrame ==
    [][lastOp' = "set_target_charge" =>
          LET old == minions[3].segments[1].state
              new == minions'[3].segments[1].state
          IN  /\ new.target_charge = arg'
              /\ new.charge = old.charge
              /\ new.smooth = old.smooth
              /\ new.recharge = old.recharge
              /\ new.intent = old.intent
              /\ new.last_touched = old.last_touched]_vars

\* C15 witness: set_target_charge(0) on a touched segment whose charge is
\* 0.75 on its way to the target 1.
C15_Witness ==
    /\ lastOp = "set_target_charge"
    /\ arg = 0
    /\ minions[3].segments[1].state.target_charge = 0
    /\ minions[3].segments[1].state.charge = 7500
    /\ minions[3].segments[1].state.smooth = 7500
    /\ minions[3].segments[1].state.last_touched /= None

C19_SnapshotExact ==
    lastOp = "from_world" =>
        /\ DOMAIN targets = {id \in DOMAIN resources : resources[id].active}
        /\ \A id \in DOMAIN targets : targets[id] = resources[id].position
        /\ beacons = emitters

\* C19 witness: a new snapshot without resource 1, which an earlier snapshot
\* held (the minion took it for target) and which was killed or deactivated
\* since, and with resource 2 at its current position.
C19_Witness ==
    /\ lastOp = "from_world"
    /\ minions[3].state.target = Some(1)
    /\ DOMAIN targets = {2}
    /\ targets[2] = edge
    /\ beacons /= <<>>

\* C20: for a fixed snapshot, fixed responses and a fixed choice of what
\* find() returns to each minion, the minions after a to_world pass are the
\* same for every order the loop processes them in.
C20_OrderIndependence ==
    \A pick \in Picks(minions, targets) :
        \A o1 \in Orders(DOMAIN minions), o2 \in Orders(DOMAIN minions) :
            update_minions(o1, minions, targets, beacons, response, pick)
                = update_minions(o2, minions, targets, beacons, response, pick)

\* C20 witness: a pass has given two minions with a sensor the same target,
\* the only one in range, whichever was processed first.
C20_Witness ==
    /\ lastOp = "to_world"
    /\ before[3].target = None
    /\ before[4].target = None
    /\ DOMAIN targets = {1, 2}
    /\ targets[1] = near
    /\ targets[2] = edge
    /\ minions[3].state.target = Some(1)
    /\ minions[4].state.target = Some(1)

\* C23: right after start(position, angle, shape), whatever the builder held
\* before, the list is exactly one segment, at the given position and angle,
\* of the given shape, with no attachment and the flags TORSO | MIDDLE, and
\* index() returns 0.
C23_StartResets ==
    lastCall.op = "start" =>
        /\ Len(segments) = 1
        /\ segments[1].transform.position = lastCall.position
        /\ segments[1].transform.angle = lastCall.angle
        /\ segments[1].mesh.shape = lastCall.shape
        /\ segments[1].attached_to = None
        /\ segments[1].flags = {"TORSO", "MIDDLE"}
        /\ index = 0

\* C23 witness: start on a builder that held two segments (the root's stored
\* index is the length of the list it replaced) has left the root alone, at
\* the pose it was given.
C23_Witness ==
    /\ lastCall.op = "start"
    /\ lastCall.position = <<6, 6>>
    /\ lastCall.angle = 1
    /\ Len(segments) = 1
    /\ segments[1].index = 2
    /\ segments[1].transform = [position |-> <<6, 6>>, angle |-> 1]
    /\ index = 0

----------------------------------------------------------------------------
\* The operations of the input state.

\* Longest mouse history kept (History::new(60) keeps 60 positions).
HistoryLen == 2

\* History::push: the latest position first, the oldest dropped when full.
history_push(h, p) == SubSeq(<<p>> \o h, 1, IF Len(h) < HistoryLen THEN Len(h) + 1 ELSE HistoryLen)

\* InputState::key_pressed(b)
is_key_pressed(b) == b \in key_pressed

\* InputState::key(state, b)
key(state, b) ==
    /\ key_ack' = key_ack \ {b}
    /\ key_pressed' = IF state = "Down" THEN key_pressed \cup {b} ELSE key_pressed \ {b}
    /\ reported' = [reported EXCEPT ![b] = 0]
    /\ called' = [op |-> "key", state |-> state, key |-> b]
    /\ returned' = "unit"
    /\ UNCHANGED <<drag_state, mouse_history, mouse_position>>
    /\ UNCHANGED <<builderVars, aiVars>>

\* InputState::mouse_at(pos)
mouse_at(pos) ==
    /\ mouse_history' = history_push(mouse_history, mouse_position)
    /\ mouse_position' = pos
    /\ called' = [op |-> "mouse_at", pos |-> pos]
    /\ returned' = "unit"
    /\ UNCHANGED <<key_pressed, key_ack, drag_state, reported>>
    /\ UNCHANGED <<builderVars, aiVars>>

\* InputState::event(event)
event(e) ==
    IF e.tag = "Key" THEN key(e.state, e.key) ELSE mouse_at(e.position)

\* A key_once that answers without acknowledging.
key_once_no_ack(b) ==
    LET ret == IF b \in key_ack THEN FALSE ELSE b \in key_pressed
    IN  /\ key_ack' = key_ack
        /\ returned' = ret
        /\ reported' = IF ret THEN [reported EXCEPT ![b] = @ + 1] ELSE reported
        /\ called' = [op |-> "key_once", key |-> b]
        /\ UNCHANGED <<key_pressed, drag_state, mouse_history, mouse_position>>
        /\ UNCHANGED <<builderVars, aiVars>>

\* InputState::key_once(b)
key_once(b) ==
    LET ret == IF b \in key_ack THEN FALSE ELSE b \in key_pressed
    IN  /\ key_ack' = IF b \in key_ack THEN key_ack ELSE key_ack \cup {b}
        /\ returned' = ret
        /\ reported' = IF ret THEN [reported EXCEPT ![b] = @ + 1] ELSE reported
        /\ called' = [op |-> "key_once", key |-> b]
        /\ UNCHANGED <<key_pressed, drag_state, mouse_history, mouse_position>>
        /\ UNCHANGED <<builderVars, aiVars>>

\* A dragging that follows whichever key it is asked about.
dragging_any_key(k, pos) ==
    /\ called' = [op |-> "dragging", key |-> k, pos |-> pos]
    /\ IF drag_state.kind = "Nothing"
       THEN IF is_key_pressed(k)
            THEN /\ drag_state' = Hold(k, pos)
                 /\ returned' = [kind |-> "Begin", key |-> k, start |-> pos]
            ELSE /\ drag_state' = DragNothing
                 /\ returned' = [kind |-> "Nothing"]
       ELSE IF TRUE
            THEN IF is_key_pressed(k)
                 THEN /\ drag_state' = Hold(k, drag_state.start)
                      /\ returned' = [kind |-> "Dragging", key |-> k,
                                      start |-> drag_state.start, pos |-> pos]
                 ELSE /\ drag_state' = DragNothing
                      /\ \E prev \in IF mouse_history = <<>> THEN {mouse_position}
                                      ELSE {mouse_history[i] : i \in 1..Len(mouse_history)} :
                             returned' = [kind |-> "End", key |-> k,
                                          start |-> drag_state.start, pos |-> pos,
                                          prev |-> prev]
            ELSE /\ drag_state' = drag_state
                 /\ returned' = [kind |-> "Nothing"]
    /\ UNCHANGED <<key_pressed, key_ack, mouse_history, mouse_position, reported>>
    /\ UNCHANGED <<builderVars, aiVars>>

\* InputState::dragging(key, pos).  End's last position is the first one the
\* history's iterator yields, which is one of the positions it holds, or the
\* mouse position when it holds none.
dragging(k, pos) ==
    /\ called' = [op |-> "dragging", key |-> k, pos |-> pos]
    /\ IF drag_state.kind = "Nothing"
       THEN IF is_key_pressed(k)
            THEN /\ drag_state' = Hold(k, pos)
                 /\ returned' = [kind |-> "Begin", key |-> k, start |-> pos]
            ELSE /\ drag_state' = DragNothing
                 /\ returned' = [kind |-> "Nothing"]
       ELSE IF drag_state.key = k
            THEN IF is_key_pressed(k)
                 THEN /\ drag_state' = Hold(k, drag_state.start)
                      /\ returned' = [kind |-> "Dragging", key |-> k,
                                      start |-> drag_state.start, pos |-> pos]
                 ELSE /\ drag_state' = DragNothing
                      /\ \E prev \in IF mouse_history = <<>> THEN {mouse_position}
                                      ELSE {mouse_history[i] : i \in 1..Len(mouse_history)} :
                             returned' = [kind |-> "End", key |-> k,
                                          start |-> drag_state.start, pos |-> pos,
                                          prev |-> prev]
            ELSE /\ drag_state' = drag_state
                 /\ returned' = [kind |-> "Nothing"]
    /\ UNCHANGED <<key_pressed, key_ack, mouse_history, mouse_position, reported>>
    /\ UNCHANGED <<builderVars, aiVars>>

\* The events and the calls the input is driven with, in a world where
\* nothing else runs.
MousePositions == {origin, <<6, 6>>}

Events ==
    [tag : {"Key"}, state : {"Down", "Up"}, key : Keys]
        \cup [tag : {"Mouse"}, position : MousePositions]

InputInit ==
    /\ BuilderInit
    /\ InputDefault
    /\ emitters = <<>>
    /\ resources = <<>>
    /\ minions = <<>>
    /\ handed_out(0)
    /\ AiDefault

InputNext ==
    \/ \E e \in Events : event(e)
    \/ \E b \in Keys : key_once(b)
    \/ \E k \in Keys, pos \in MousePositions : dragging(k, pos)

SpecInput == InputInit /\ [][InputNext]_vars

----------------------------------------------------------------------------
\* C31: key_once(k) reports a press at most once: between two consecutive key
\* events for k at most one key_once(k) call returns true, and it returns true
\* only when k is pressed; a key event for k, down or up, re-arms it (the next
\* key_once(k) answers whether k is pressed), and a key event for another key
\* changes neither the count nor the acknowledgement of k.
C31_KeyOnceReportsOnce ==
    /\ [](\A k \in Keys : reported[k] <= 1)
    /\ [][/\ (called'.op = "key_once" /\ returned' = TRUE)
               => /\ called'.key \in key_pressed
                  /\ reported[called'.key] = 0
          /\ (called'.op = "key_once" /\ reported[called'.key] = 0)
               => (returned' = (called'.key \in key_pressed))
          /\ called'.op = "key"
               => /\ reported'[called'.key] = 0
                  /\ called'.key \notin key_ack'
                  /\ \A k \in Keys \ {called'.key} :
                         /\ reported'[k] = reported[k]
                         /\ (k \in key_ack') = (k \in key_ack)]_vars

\* The key is down, key_once has answered true once and false afterwards, and
\* no key event for it has come in between.
C31_Witness ==
    /\ called.op = "key_once"
    /\ returned = FALSE
    /\ called.key \in key_pressed
    /\ reported[called.key] = 1

----------------------------------------------------------------------------
\* C32: the drag state machine.  dragging answers Begin only from Nothing with
\* the key pressed, and then holds the key with the position given; it answers
\* Dragging and End only while holding that same key, with the start held
\* since Begin; it answers End exactly when the held key is no longer pressed,
\* and goes back to Nothing; asked about another key than the one held, it
\* answers Nothing and leaves the drag state as it was.  No other operation
\* changes the drag state.
C32_DragStateMachine ==
    [][IF called'.op = "dragging"
       THEN LET k == called'.key
                pos == called'.pos
                r == returned'
                holding == drag_state.kind = "Hold" /\ drag_state.key = k
            IN  /\ r.kind = "Begin"
                     => /\ drag_state = DragNothing
                        /\ k \in key_pressed
                        /\ r.key = k /\ r.start = pos
                        /\ drag_state' = Hold(k, pos)
                /\ r.kind \in {"Dragging", "End"}
                     => /\ holding
                        /\ r.key = k /\ r.start = drag_state.start /\ r.pos = pos
                /\ r.kind = "Dragging"
                     => /\ k \in key_pressed
                        /\ drag_state' = drag_state
                /\ (r.kind = "End") = (holding /\ k \notin key_pressed)
                /\ r.kind = "End" => drag_state' = DragNothing
                /\ (drag_state.kind = "Hold" /\ drag_state.key # k)
                     => /\ r.kind = "Nothing"
                        /\ drag_state' = drag_state
       ELSE drag_state' = drag_state]_vars

\* A drag of one key has ended away from where it began, while the other key
\* is down.
C32_Witness ==
    /\ called.op = "dragging"
    /\ returned.kind = "End"
    /\ returned.start # returned.pos
    /\ key_pressed = Keys \ {called.key}

====
